---- MODULE Spec2Model ----
(***************************************************************************)
(* Model of beetsplug/vgmdb.py (VGMdbPlugin): query normalisation, the     *)
(* search -> detail expansion of candidates/get_albums, album_for_id and   *)
(* the record normaliser get_album_info.                                   *)
(*                                                                         *)
(* Python strings are modelled as sequences of one-character strings so    *)
(* that split, slicing, int() and the regular expressions are computed     *)
(* character by character.  JSON null / Python None is the one-element     *)
(* sequence <<"null">>, which no character sequence equals.                *)
(***************************************************************************)
EXTENDS Integers, Sequences, FiniteSets, TLC

VARIABLES
    config,     \* self.config["lang-priority"]
    lang,       \* self.lang, set by __init__
    pc,         \* position of the running call
    call,       \* entry point of the running call
    query,      \* raw query text built by candidates
    sent,       \* text embedded in the search URL
    hits,       \* items["results"]["albums"] of the search response
    albums,     \* local list `albums` of get_albums
    requests,   \* round trips issued so far, in order
    responses,  \* answers received so far, in order
    item,       \* record handed to get_album_info
    ret         \* what the call returned or raised

vars == <<config, lang, pc, call, query, sent, hits, albums, requests, responses, item, ret>>

----------------------------------------------------------------------------
(* Bounds *)

MaxQueryLen == 4
MaxHits == 7
MaxDiscs == 2
MaxTracks == 2

----------------------------------------------------------------------------
(* Characters and strings *)

None == <<"null">>

Digits == <<"0", "1", "2", "3", "4", "5", "6", "7", "8", "9">>

IsDigit(c) == \E i \in 1..Len(Digits) : Digits[i] = c

DigitVal(c) == (CHOOSE i \in 1..Len(Digits) : Digits[i] = c) - 1

UpperLetters ==
    {"A", "B", "C", "D", "E", "F", "G", "H", "I", "J", "K", "L", "M",
      "N", "O", "P", "Q", "R", "S", "T", "U", "V", "W", "X", "Y", "Z"}

LowerLetters ==
    {"a", "b", "c", "d", "e", "f", "g", "h", "i", "j", "k", "l", "m",
      "n", "o", "p", "q", "r", "s", "t", "u", "v", "w", "x", "y", "z"}

\* str.lower() on the letters the pattern (CD|disc|disk) can see
Lower(c) ==
    CASE c = "C" -> "c"
      [] c = "D" -> "d"
      [] c = "I" -> "i"
      [] c = "S" -> "s"
      [] c = "K" -> "k"
      [] OTHER -> c

\* \w of the re module under (?u): letters, digits and underscore
IsWord(c) == c \in UpperLetters \/ c \in LowerLetters \/ IsDigit(c) \/ c = "_"

\* \s of the re module
IsSpace(c) == c = " "

RECURSIVE SeqsUpTo(_, _)
SeqsUpTo(S, n) ==
    IF n = 0 THEN {<<>>}
    ELSE LET shorter == SeqsUpTo(S, n - 1)
         IN  shorter \cup {Append(s, c) : s \in {t \in shorter : Len(t) = n - 1}, c \in S}

----------------------------------------------------------------------------
(* get_albums, lines 81-84: the two re.sub calls *)

\* re.sub(r"(?u)\W+", " ", query): each maximal run of non-word characters
\* becomes one space
RECURSIVE CollapseNonWord(_, _)
CollapseNonWord(s, i) ==
    IF i > Len(s) THEN <<>>
    ELSE IF IsWord(s[i]) THEN <<s[i]>> \o CollapseNonWord(s, i + 1)
    ELSE IF i > 1 /\ ~IsWord(s[i - 1]) THEN CollapseNonWord(s, i + 1)
    ELSE <<" ">> \o CollapseNonWord(s, i + 1)

\* s[i..] starts with the keyword kw, compared case-insensitively
StartsWithCI(s, i, kw) ==
    /\ i + Len(kw) - 1 <= Len(s)
    /\ \A k \in 1..Len(kw) : Lower(s[i + k - 1]) = kw[k]

\* length of the alternative of (CD|disc|disk) matching at i, 0 if none
KeywordLen(s, i) ==
    IF StartsWithCI(s, i, <<"c", "d">>) THEN 2
    ELSE IF StartsWithCI(s, i, <<"d", "i", "s", "c">>) THEN 4
    ELSE IF StartsWithCI(s, i, <<"d", "i", "s", "k">>) THEN 4
    ELSE 0

\* \s* and \d+ are greedy: first position >= i outside the class
RECURSIVE SkipSpaces(_, _)
SkipSpaces(s, i) ==
    IF i <= Len(s) /\ IsSpace(s[i]) THEN SkipSpaces(s, i + 1) ELSE i

RECURSIVE SkipDigits(_, _)
SkipDigits(s, i) ==
    IF i <= Len(s) /\ IsDigit(s[i]) THEN SkipDigits(s, i + 1) ELSE i

\* \b before position i: exactly one of s[i-1], s[i] is a word character
\* (the ends of the string count as non-word)
WordBoundary(s, i) ==
    LET before == i > 1 /\ IsWord(s[i - 1])
        after  == i <= Len(s) /\ IsWord(s[i])
    IN  before # after

\* end (exclusive) of a match of \b(CD|disc|disk)\s*\d+ starting at i,
\* 0 if the pattern does not match there
MarkerEnd(s, i) ==
    LET k == KeywordLen(s, i)
        d == SkipSpaces(s, i + k)
        e == SkipDigits(s, d)
    IN  IF WordBoundary(s, i) /\ k > 0 /\ e > d THEN e ELSE 0

\* re.sub(r"(?i)\b(CD|disc|disk)\s*\d+", "", query): one left-to-right pass
\* over the input, matches do not overlap
RECURSIVE StripMarkers(_, _)
StripMarkers(s, i) ==
    IF i > Len(s) THEN <<>>
    ELSE LET e == MarkerEnd(s, i)
         IN  IF e > 0 THEN StripMarkers(s, e)
             ELSE <<s[i]>> \o StripMarkers(s, i + 1)

NormalizeQuery(q) == StripMarkers(CollapseNonWord(q, 1), 1)

\* candidates, lines 47-50
BuildQuery(artist, album, va_likely) ==
    IF va_likely THEN album ELSE artist \o <<" ">> \o album

----------------------------------------------------------------------------
(* Python primitives used by get_album_info *)

Raise(e) == [kind |-> "raise", exc |-> e]

Ok(v) == [kind |-> "ok", val |-> v]

\* str.split(sep) for a one-character separator: always at least one part
RECURSIVE SplitFrom(_, _, _, _)
SplitFrom(s, sep, i, cur) ==
    IF i > Len(s) THEN <<cur>>
    ELSE IF s[i] = sep THEN <<cur>> \o SplitFrom(s, sep, i + 1, <<>>)
    ELSE SplitFrom(s, sep, i + 1, Append(cur, s[i]))

Split(s, sep) == SplitFrom(s, sep, 1, <<>>)

\* s[n:]
SliceFrom(s, n) == SubSeq(s, n + 1, Len(s))

IsNumeral(s) == Len(s) > 0 /\ \A i \in 1..Len(s) : IsDigit(s[i])

RECURSIVE NumeralVal(_, _)
NumeralVal(s, n) ==
    IF n = 0 THEN 0 ELSE 10 * NumeralVal(s, n - 1) + DigitVal(s[n])

\* int(s) / float(s) on the texts of this model (digits, the letters of
\* "Unknown" and "x", no sign, point, exponent or blank): a non-empty run of
\* decimal digits converts, anything else is ValueError
ParseNumber(s) ==
    IF IsNumeral(s) THEN Ok(NumeralVal(s, Len(s))) ELSE Raise("ValueError")

\* str(x)
Str(x) == IF x = None THEN <<"N", "o", "n", "e">> ELSE x

\* `key in names` and names[key] for a JSON object kept in document order
HasKey(names, key) == \E i \in 1..Len(names) : names[i][1] = key

Lookup(names, key) == names[CHOOSE i \in 1..Len(names) : names[i][1] = key][2]

\* index of the first entry of self.lang that is a key of names, 0 if none
\* (the `for lang in self.lang: if lang in ...: ...; break` loops)
FirstLang(names, priority) ==
    IF \E i \in 1..Len(priority) : HasKey(names, priority[i])
    THEN CHOOSE i \in 1..Len(priority) :
             /\ HasKey(names, priority[i])
             /\ \A j \in 1..(i - 1) : ~HasKey(names, priority[j])
    ELSE 0

----------------------------------------------------------------------------
(* __init__, line 23 *)

ParseLangPriority(setting) == Split(setting, ",")

----------------------------------------------------------------------------
(* get_album_info, lines 106-219.  An item is a JSON object: a function    *)
(* from its keys to values; a missing key raises KeyError where the code   *)
(* subscripts it.  Texts the code only passes through (titles, catalog     *)
(* number, media format, URL) are plain strings, on which str() is the     *)
(* identity.                                                               *)

\* lines 110-114: album_name
AlbumName(it, priority) ==
    IF "name" \notin DOMAIN it \/ "names" \notin DOMAIN it THEN Raise("KeyError")
    ELSE LET i == FirstLang(it["names"], priority)
         IN  Ok(IF i = 0 THEN it["name"] ELSE Lookup(it["names"], priority[i]))

\* line 116: album_id = item["link"][6:]
AlbumId(it) ==
    IF "link" \notin DOMAIN it THEN Raise("KeyError")
    ELSE Ok(SliceFrom(it["link"], 6))

\* line 118
CatalogNum(it) ==
    IF "catalog" \notin DOMAIN it THEN Raise("KeyError") ELSE Ok(it["catalog"])

\* lines 121-124: the performers test is commented out
ArtistTypePerformersFirst(it) ==
    IF "performers" \in DOMAIN it /\ Len(it["performers"]) > 0
    THEN "performers" ELSE "composers"

ArtistType(it) == "composers"

\* lines 126-131: one name per credit that has a priority language
RECURSIVE ArtistNames(_, _)
ArtistNames(credits, priority) ==
    IF credits = <<>> THEN <<>>
    ELSE LET i == FirstLang(Head(credits)["names"], priority)
         IN  (IF i = 0 THEN <<>> ELSE <<Lookup(Head(credits)["names"], priority[i])>>)
             \o ArtistNames(Tail(credits), priority)

\* lines 126-137: artist and artist_id
ArtistInfo(it, priority) ==
    LET role == ArtistType(it)
    IN  IF role \notin DOMAIN it THEN Raise("KeyError")
        ELSE LET artists == ArtistNames(it[role], priority)
             IN  IF artists = <<>> THEN Raise("IndexError")
                 ELSE Ok([artist |-> artists[1],
                          artist_id |-> IF "link" \in DOMAIN it[role][1]
                                        THEN SliceFrom(it[role][1]["link"], 7)
                                        ELSE None])

\* lines 157-161: length in seconds
TrackLength(text) ==
    IF text = <<"U", "n", "k", "n", "o", "w", "n">> THEN Ok(0)
    ELSE LET parts == Split(text, ":")
             mins  == ParseNumber(parts[1])
         IN  IF mins.kind = "raise" THEN mins
             ELSE IF Len(parts) < 2 THEN Raise("IndexError")
             ELSE LET secs == ParseNumber(parts[2])
                  IN  IF secs.kind = "raise" THEN secs
                      ELSE Ok(mins.val * 60 + secs.val)

\* lines 148-153: title, with the first value of the map as the fallback
TrackTitle(track, priority) ==
    IF track["names"] = <<>> THEN Raise("IndexError")
    ELSE LET i == FirstLang(track["names"], priority)
         IN  Ok(IF i = 0 THEN track["names"][1][2]
                ELSE Lookup(track["names"], priority[i]))

\* lines 155, 164-174: the TrackInfo of one track; per-disc numbering is the
\* variant that loses the running counter
NewTrackPerDisc(title, length, total_index, disc_index, track_index) ==
    [title |-> title, track_id |-> track_index + 1, length |-> length,
     index |-> track_index + 1, medium |-> disc_index,
     medium_index |-> track_index, medium_total |-> "list.count"]

NewTrack(title, length, total_index, disc_index, track_index) ==
    [title |-> title, track_id |-> total_index, length |-> length,
     index |-> total_index, medium |-> disc_index,
     medium_index |-> track_index, medium_total |-> "list.count"]

\* lines 143-175: the nested enumerate loops, resumed at disc d (1-based),
\* track t (1-based), with Tracks = acc and total_index = Len(acc)
RECURSIVE TrackLoop(_, _, _, _, _)
TrackLoop(it, priority, d, t, acc) ==
    IF d > Len(it["discs"]) THEN Ok(acc)
    ELSE IF t > Len(it["discs"][d]["tracks"]) THEN TrackLoop(it, priority, d + 1, 1, acc)
    ELSE LET track  == it["discs"][d]["tracks"][t]
             title  == TrackTitle(track, priority)
             length == TrackLength(track["track_length"])
         IN  IF title.kind = "raise" THEN title
             ELSE IF length.kind = "raise" THEN length
             ELSE IF "media_format" \notin DOMAIN it THEN Raise("KeyError")
             ELSE TrackLoop(it, priority, d, t + 1,
                      Append(acc, NewTrack(title.val, length.val, Len(acc) + 1,
                                           d - 1, t - 1)))

Tracks(it, priority) ==
    IF "discs" \notin DOMAIN it THEN Raise("KeyError")
    ELSE TrackLoop(it, priority, 1, 1, <<>>)

\* lines 178-186: the three date texts
ReleaseDate(it) ==
    IF "release_date" \notin DOMAIN it THEN Raise("KeyError")
    ELSE IF it["release_date"] = None \/ it["release_date"] = <<>>
    THEN Ok([year |-> <<"0", "0", "0", "0">>, month |-> <<"0", "0">>,
             day |-> <<"0", "0">>])
    ELSE LET parts == Split(it["release_date"], "-")
         IN  IF Len(parts) < 3 THEN Raise("IndexError")
             ELSE Ok([year |-> parts[1], month |-> parts[2], day |-> parts[3]])

\* lines 188-219: the album is built inside the publisher loop; when the
\* loop ends without a match the function falls off its end and returns None
BuildAlbum(it, priority, name, id, catalognum, who, tracks, date) ==
    IF priority = <<>> THEN [kind |-> "none"]
    ELSE IF "publisher" \notin DOMAIN it THEN Raise("KeyError")
    ELSE LET i == FirstLang(it["publisher"]["names"], priority)
         IN  IF i = 0 THEN [kind |-> "none"]
             ELSE IF "media_format" \notin DOMAIN it \/ "vgmdb_link" \notin DOMAIN it
             THEN Raise("KeyError")
             ELSE LET year  == ParseNumber(date.year)
                      month == ParseNumber(date.month)
                      day   == ParseNumber(date.day)
                  IN  IF year.kind = "raise" THEN year
                      ELSE IF month.kind = "raise" THEN month
                      ELSE IF day.kind = "raise" THEN day
                      ELSE [kind |-> "album",
                            album |-> name,
                            album_id |-> id,
                            artist |-> who.artist,
                            artist_id |-> Str(who.artist_id),
                            tracks |-> tracks,
                            year |-> year.val,
                            month |-> month.val,
                            day |-> day.val,
                            original_year |-> date.year,
                            original_month |-> date.month,
                            original_day |-> date.day,
                            label |-> Lookup(it["publisher"]["names"], priority[i]),
                            mediums |-> Len(it["discs"]),
                            media |-> it["media_format"],
                            data_source |-> "VGMdb",
                            data_url |-> it["vgmdb_link"],
                            country |-> "JP",
                            catalognum |-> catalognum]

\* get_album_info: the steps in the order the code runs them; the first
\* exception ends the call
GetAlbumInfo(it, priority) ==
    LET name == AlbumName(it, priority)
        id   == AlbumId(it)
        cat  == CatalogNum(it)
        who  == ArtistInfo(it, priority)
        trs  == Tracks(it, priority)
        date == ReleaseDate(it)
    IN  IF name.kind = "raise" THEN name
        ELSE IF id.kind = "raise" THEN id
        ELSE IF cat.kind = "raise" THEN cat
        ELSE IF who.kind = "raise" THEN who
        ELSE IF trs.kind = "raise" THEN trs
        ELSE IF date.kind = "raise" THEN date
        ELSE BuildAlbum(it, priority, name.val, id.val, cat.val, who.val,
                        trs.val, date.val)

----------------------------------------------------------------------------
(* Inputs: settings, records and remote answers *)

ja == <<"j", "a">>

en == <<"e", "n">>

fr == <<"f", "r">>

\* line 18: "ja, en, ja-latn, Japanese, Romaji, English"
DefaultLangPriority ==
    <<"j", "a", ",", " ", "e", "n", ",", " ",
      "j", "a", "-", "l", "a", "t", "n", ",", " ",
      "J", "a", "p", "a", "n", "e", "s", "e", ",", " ",
      "R", "o", "m", "a", "j", "i", ",", " ",
      "E", "n", "g", "l", "i", "s", "h">>

\* the default and a user setting written without blanks: "en,ja"
LangSettings == {DefaultLangPriority, <<"e", "n", ",", "j", "a">>}

NameMaps ==
    { <<<<ja, "Title (ja)">>, <<en, "Title (en)">>>>,
      <<<<en, "Title (en)">>>>,
      <<<<fr, "Title (fr)">>>> }

Composer1 ==
    [names |-> <<<<ja, "Composer1 (ja)">>, <<en, "Composer1 (en)">>>>,
     link |-> <<"a", "r", "t", "i", "s", "t", "/", "7", "7">>]

Composer2 == [names |-> <<<<en, "Composer2 (en)">>>>]

Composer3 == [names |-> <<<<fr, "Composer3 (fr)">>>>]

Performer1 ==
    [names |-> <<<<ja, "Performer1 (ja)">>, <<en, "Performer1 (en)">>>>,
     link |-> <<"a", "r", "t", "i", "s", "t", "/", "8", "8">>]

ComposerLists == {<<>>, <<Composer1>>, <<Composer2, Composer1>>, <<Composer3>>}

PerformerLists == {<<>>, <<Performer1>>}

PublisherMaps ==
    { <<<<ja, "Label (ja)">>, <<en, "Label (en)">>>>,
      <<<<en, "Label (en)">>>>,
      <<<<fr, "Label (fr)">>>> }

ReleaseDates ==
    { None,
      <<>>,
      <<"2", "0", "0", "4", "-", "1", "1", "-", "1", "0">>,
      <<"U", "n", "k", "n", "o", "w", "n">>,
      <<"2", "0", "0", "4", "-", "1", "1">>,
      <<"2", "0", "0", "4">>,
      <<"2", "0", "0", "4", "-", "x", "x", "-", "1", "0">> }

Track1 ==
    [names |-> <<<<ja, "Track1 (ja)">>, <<en, "Track1 (en)">>>>,
     track_length |-> <<"3", ":", "4", "5">>]

Track2 ==
    [names |-> <<<<fr, "Track2 (fr)">>, <<en, "Track2 (en)">>>>,
     track_length |-> <<"U", "n", "k", "n", "o", "w", "n">>]

TrackNoColon == [names |-> Track1.names, track_length |-> <<"3">>]

TrackNotNumber == [names |-> Track1.names, track_length |-> <<"x", ":", "1">>]

TrackNoNames == [names |-> <<>>, track_length |-> <<"3", ":", "4", "5">>]

Disc(tracks) == [tracks |-> tracks]

\* every disc list of at most MaxDiscs discs of at most MaxTracks tracks
DiscLists ==
    SeqsUpTo({Disc(ts) : ts \in SeqsUpTo({Track1, Track2}, MaxTracks)}, MaxDiscs)

DiscSamples ==
    { <<>>,
      <<Disc(<<Track1, Track2>>), Disc(<<>>), Disc(<<Track2>>)>>,
      <<Disc(<<Track1>>), Disc(<<TrackNoColon>>)>>,
      <<Disc(<<TrackNotNumber>>)>>,
      <<Disc(<<Track1, TrackNoNames>>)>> }

AlbumLink(id) == <<"a", "l", "b", "u", "m", "/">> \o id

\* a detail document of the remote service
MakeItem(id, names, composers, date, publisher, discs) ==
    [name |-> "Title",
     names |-> names,
     link |-> AlbumLink(id),
     catalog |-> "CAT-1",
     composers |-> composers,
     discs |-> discs,
     release_date |-> date,
     publisher |-> [names |-> publisher],
     media_format |-> "CD",
     vgmdb_link |-> "https://vgmdb.net/" ]

WithKey(it, key, val) ==
    [k \in DOMAIN it \cup {key} |-> IF k = key THEN val ELSE it[k]]

WithoutKey(it, key) == [k \in DOMAIN it \ {key} |-> it[k]]

GoodDate == <<"2", "0", "0", "4", "-", "1", "1", "-", "1", "0">>

GoodNames == <<<<ja, "Title (ja)">>, <<en, "Title (en)">>>>

GoodPublisher == <<<<ja, "Label (ja)">>, <<en, "Label (en)">>>>

GoodDiscs == <<Disc(<<Track1, Track2>>), Disc(<<>>), Disc(<<Track2>>)>>

GoodItem(id) ==
    MakeItem(id, GoodNames, <<Composer1>>, GoodDate, GoodPublisher, GoodDiscs)

\* the headers: every combination of the fields outside the disc list
Headers ==
    LET plain == {MakeItem(<<"7", "9">>, n, c, d, p, <<>>) :
                      n \in NameMaps, c \in ComposerLists,
                      d \in ReleaseDates, p \in PublisherMaps}
    IN  plain \cup {WithKey(h, "performers", ps) : h \in plain, ps \in PerformerLists}

HeaderSamples ==
    { GoodItem(<<"7", "9">>),
      WithKey(GoodItem(<<"7", "9">>), "performers", <<Performer1>>) }

MissingKeySamples ==
    {WithoutKey(GoodItem(<<"7", "9">>), k) :
         k \in {"name", "names", "link", "catalog", "composers", "discs",
                "release_date", "publisher", "media_format", "vgmdb_link"}}

\* the records get_album_info is exercised on
Items ==
    {WithKey(h, "discs", d) : h \in Headers, d \in DiscSamples}
        \cup {WithKey(h, "discs", d) : h \in HeaderSamples, d \in DiscLists}
        \cup MissingKeySamples

----------------------------------------------------------------------------
(* State after construction (__init__, lines 13-23) *)

Pending == [kind |-> "pending"]

NoItem == [kind |-> "noitem"]

InitCommon ==
    /\ config \in LangSettings
    /\ lang = ParseLangPriority(config)
    /\ pc = "idle"
    /\ call = "none"
    /\ sent = <<>>
    /\ hits = <<>>
    /\ albums = <<>>
    /\ requests = <<>>
    /\ responses = <<>>
    /\ ret = Pending

----------------------------------------------------------------------------
(* The record normaliser on its own: get_album_info applied to one record *)

InitNormalize ==
    /\ InitCommon
    /\ query = <<>>
    /\ item \in Items

Normalize ==
    /\ pc = "idle"
    /\ call' = "get_album_info"
    /\ ret' = GetAlbumInfo(item, lang)
    /\ pc' = "done"
    /\ UNCHANGED <<config, lang, query, sent, hits, albums, requests, responses, item>>

NextNormalize == Normalize

SpecNormalize == InitNormalize /\ [][NextNormalize]_vars

----------------------------------------------------------------------------
(* The query normaliser on its own: get_albums up to the search request *)

QueryAlphabet == {"C", "d", "1", " ", "!", "x"}

QuerySamples ==
    { <<"D", "i", "s", "c", " ", "2">>,
      <<"d", "i", "s", "k", "1", "0">>,
      <<"O", "S", "T", " ", "(", "C", "D", "1", ")">>,
      <<"C", "D", "1", "C", "D", "2">> }

Queries == SeqsUpTo(QueryAlphabet, MaxQueryLen) \cup QuerySamples

SearchRequest(text) == [op |-> "search", arg |-> text]

DetailRequest(id) == [op |-> "album", arg |-> id]

InitQuery ==
    /\ InitCommon
    /\ query \in Queries
    /\ item = NoItem

\* get_albums, lines 81-87: normalise the text and issue the search request
GetAlbumsSend ==
    /\ pc = "idle"
    /\ call' = "get_albums"
    /\ sent' = NormalizeQuery(query)
    /\ requests' = <<SearchRequest(sent')>>
    /\ pc' = "search"
    /\ UNCHANGED <<config, lang, query, hits, albums, responses, item, ret>>

NextQuery == GetAlbumsSend

SpecQuery == InitQuery /\ [][NextQuery]_vars

----------------------------------------------------------------------------
(* The service: candidates -> get_albums -> album_for_id -> get_album_info *)

Artists == {<<"A", "b">>}

Albums == {<<"X", "!">>, <<"X", " ", "C", "D", "1">>}

HitIds == <<"1", "2", "3", "4", "5", "6", "7", "8", "9">>

\* a search hit: {"link": "album/<id>", ...}
Hit(i) == [link |-> AlbumLink(<<HitIds[i]>>)]

\* answers to the search request: requests.get raises; the body is not
\* JSON; the body is a JSON document without "results"; a result list
SearchResponses ==
    { [kind |-> "error"], [kind |-> "notjson"], [kind |-> "json", doc |-> "other"] }
        \cup { [kind |-> "json", doc |-> "results", albums |-> [i \in 1..n |-> Hit(i)]] :
                   n \in 0..MaxHits }

NoPublisherItem(id) ==
    MakeItem(id, GoodNames, <<Composer1>>, GoodDate, <<<<fr, "Label (fr)">>>>, GoodDiscs)

NoCreditItem(id) ==
    MakeItem(id, GoodNames, <<>>, GoodDate, GoodPublisher, GoodDiscs)

BadDurationItem(id) ==
    MakeItem(id, GoodNames, <<Composer1>>, GoodDate, GoodPublisher,
             <<Disc(<<TrackNoColon>>)>>)

BadDateItem(id) ==
    MakeItem(id, GoodNames, <<Composer1>>, <<"U", "n", "k", "n", "o", "w", "n">>,
             GoodPublisher, GoodDiscs)

\* the JSON error document of a non-2xx answer: none of the album keys
ErrorDocument == [message |-> "not found"]

\* answers to the detail request for id: requests.get raises; the body is
\* not JSON (an HTML error page, an empty body); a JSON document
DetailResponses(id) ==
    { [kind |-> "error"], [kind |-> "notjson"] }
        \cup { [kind |-> "json", doc |-> d] :
                   d \in { GoodItem(id), NoPublisherItem(id), NoCreditItem(id),
                           BadDurationItem(id), BadDateItem(id),
                           WithoutKey(GoodItem(id), "catalog"), ErrorDocument } }

\* album_for_id, lines 64-73, from the answer on: what the call returns or
\* raises.  Only the ValueError of r.json() is caught.
AlbumForIdResult(resp, priority) ==
    CASE resp.kind = "error"   -> Raise("ConnectionError")
      [] resp.kind = "notjson" -> [kind |-> "none"]
      [] OTHER                 -> GetAlbumInfo(resp.doc, priority)

\* line 101: the cap on the result list
ResultCap == 5

LoopBreakAfterCap(list) == Len(list) > ResultCap

LoopBreak(list) == Len(list) >= ResultCap

\* candidates, lines 51-55: whatever get_albums raises becomes []
CandidatesNoHandler(outcome) == outcome

CandidatesReturn(outcome) ==
    IF outcome.kind = "raise" THEN [kind |-> "list", val |-> <<>>] ELSE outcome

Init ==
    /\ InitCommon
    /\ query = <<>>
    /\ item = NoItem

\* candidates, lines 47-52, and get_albums, lines 81-87: build the query,
\* normalise it, issue the search request
Candidates(artist, album, va_likely) ==
    /\ pc = "idle"
    /\ call' = "candidates"
    /\ query' = BuildQuery(artist, album, va_likely)
    /\ sent' = NormalizeQuery(query')
    /\ requests' = <<SearchRequest(sent')>>
    /\ pc' = "search"
    /\ UNCHANGED <<config, lang, hits, albums, responses, item, ret>>

\* album_for_id called by the host, line 64: issue the detail request
AlbumForId(id) ==
    /\ pc = "idle"
    /\ call' = "album_for_id"
    /\ requests' = <<DetailRequest(id)>>
    /\ pc' = "detail"
    /\ UNCHANGED <<config, lang, query, sent, hits, albums, responses, item, ret>>

\* get_albums, lines 87-104, from the search answer to the first detail
\* request or to the return
SearchReturns(resp) ==
    /\ pc = "search"
    /\ responses' = Append(responses, resp)
    /\ UNCHANGED <<config, lang, call, query, sent, albums, item>>
    /\ CASE resp.kind = "error" ->
              /\ ret' = CandidatesReturn(Raise("ConnectionError"))
              /\ pc' = "done"
              /\ UNCHANGED <<hits, requests>>
         [] resp.kind = "notjson" ->
              /\ ret' = CandidatesReturn([kind |-> "list", val |-> albums])
              /\ pc' = "done"
              /\ UNCHANGED <<hits, requests>>
         [] resp.kind = "json" /\ resp.doc = "other" ->
              /\ ret' = CandidatesReturn(Raise("KeyError"))
              /\ pc' = "done"
              /\ UNCHANGED <<hits, requests>>
         [] resp.kind = "json" /\ resp.doc = "results" /\ resp.albums = <<>> ->
              /\ ret' = CandidatesReturn([kind |-> "list", val |-> albums])
              /\ pc' = "done"
              /\ hits' = resp.albums
              /\ UNCHANGED requests
         [] OTHER ->
              /\ hits' = resp.albums
              /\ requests' = Append(requests,
                                    DetailRequest(SliceFrom(resp.albums[1].link, 6)))
              /\ pc' = "detail"
              /\ UNCHANGED ret

\* album_for_id, lines 66-73, and the rest of the loop body of get_albums,
\* lines 100-104: from the detail answer to the next request or the return
DetailReturns(resp) ==
    /\ pc = "detail"
    /\ responses' = Append(responses, resp)
    /\ item' = IF resp.kind = "json" THEN resp.doc ELSE item
    /\ UNCHANGED <<config, lang, call, query, sent, hits>>
    /\ LET got == AlbumForIdResult(resp, lang)
       IN  IF call = "album_for_id"
           THEN /\ ret' = got
                /\ pc' = "done"
                /\ UNCHANGED <<albums, requests>>
           ELSE IF got.kind = "raise"
           THEN /\ ret' = CandidatesReturn(got)
                /\ pc' = "done"
                /\ UNCHANGED <<albums, requests>>
           ELSE /\ albums' = Append(albums, got)
                /\ IF LoopBreak(albums') \/ Len(albums') >= Len(hits)
                   THEN /\ ret' = CandidatesReturn([kind |-> "list", val |-> albums'])
                        /\ pc' = "done"
                        /\ UNCHANGED requests
                   ELSE /\ requests' =
                               Append(requests,
                                      DetailRequest(
                                          SliceFrom(hits[Len(albums') + 1].link, 6)))
                        /\ pc' = "detail"
                        /\ UNCHANGED ret

\* what the remote service may answer to the request in flight
PossibleDetailResponses ==
    IF pc = "detail" THEN DetailResponses(requests[Len(requests)].arg) ELSE {}

Next ==
    \/ \E artist \in Artists, album \in Albums, va_likely \in BOOLEAN :
           Candidates(artist, album, va_likely)
    \/ \E id \in {<<"7", "9">>} : AlbumForId(id)
    \/ \E resp \in SearchResponses : SearchReturns(resp)
    \/ \E resp \in PossibleDetailResponses : DetailReturns(resp)

Spec == Init /\ [][Next]_vars

----------------------------------------------------------------------------
(* Properties of the service (Spec) *)

CandidatesDone == call = "candidates" /\ pc = "done"

\* the identifier of the i-th search hit, as the search answer lists them
HitId(i) == <<HitIds[i]>>

\* the normalised album of the k-th answer, when that answer is a record
\* that normalises
NormalizesAt(k) ==
    /\ responses[k].kind = "json"
    /\ GetAlbumInfo(responses[k].doc, lang).kind = "album"

\* C1: in candidates -> get_albums a hit whose record fails to normalise
\* costs only that candidate: when every detail answer is a record, every
\* fetched hit whose record normalises is in the returned list.
C1_OneBadRecordDropsOnlyItself ==
    (CandidatesDone /\ \A k \in 2..Len(responses) : responses[k].kind = "json") =>
        /\ ret.kind = "list"
        /\ \A k \in 2..Len(responses) :
               NormalizesAt(k) =>
                   \E j \in 1..Len(ret.val) :
                       ret.val[j] = GetAlbumInfo(responses[k].doc, lang)

\* C2: a record whose publisher map has no priority language gives no album
\* from album_for_id and is left out by candidates: every element of the
\* returned list is a normalised album, labelled with the publisher name of
\* the first priority language present.
C2_NoPlaceholderInCandidates ==
    /\ (call = "album_for_id" /\ pc = "done" /\ responses[1].kind = "json"
            /\ "publisher" \in DOMAIN responses[1].doc
            /\ FirstLang(responses[1].doc.publisher.names, lang) = 0
            /\ ret.kind # "raise")
           => ret.kind = "none"
    /\ (CandidatesDone /\ \A k \in 2..Len(responses) : responses[k].kind = "json") =>
           \A j \in 1..Len(ret.val) :
               /\ ret.val[j].kind = "album"
               /\ \E i \in 1..Len(lang) :
                      /\ HasKey(responses[j + 1].doc.publisher.names, lang[i])
                      /\ \A h \in 1..(i - 1) :
                             ~HasKey(responses[j + 1].doc.publisher.names, lang[h])
                      /\ ret.val[j].label =
                             Lookup(responses[j + 1].doc.publisher.names, lang[i])

\* C3: candidates issues exactly one search request, first, then at most
\* five detail requests, one at a time, for the first hits in search order;
\* the returned list has at most five entries, in that order.
C3_OneSearchThenAtMostFiveFetches ==
    call = "candidates" =>
        /\ requests[1] = SearchRequest(sent)
        /\ Len(requests) <= 1 + 5
        /\ \A i \in 2..Len(requests) :
               /\ i - 1 <= Len(hits)
               /\ requests[i] = DetailRequest(HitId(i - 1))
        /\ Len(responses) = Len(requests) - (IF pc = "done" THEN 0 ELSE 1)
        /\ pc = "done" =>
               /\ ret.kind = "list"
               /\ Len(ret.val) <= 5
               /\ Len(ret.val) <= Len(hits)
               /\ \A j \in 1..Len(ret.val) :
                      ret.val[j].kind = "album" => ret.val[j].album_id = HitId(j)

C3_Witness ==
    /\ CandidatesDone
    /\ Len(hits) = 7
    /\ Len(requests) = 6
    /\ Len(ret.val) = 5
    /\ \A j \in 1..5 : ret.val[j].kind = "album"

\* C4: candidates never raises: whatever the search and the detail requests
\* answer, it returns a list, and a search that fails in transport or whose
\* body does not decode gives the empty list.
C4_CandidatesAlwaysReturnsList ==
    CandidatesDone =>
        /\ ret.kind = "list"
        /\ responses[1].kind \in {"error", "notjson"} => ret.val = <<>>

C4_Witness ==
    /\ CandidatesDone
    /\ responses[1].kind = "error"
    /\ ret = [kind |-> "list", val |-> <<>>]

\* C5: album_for_id reports a failed fetch as None, never as an exception:
\* a transport failure, a non-2xx answer (an error page or an error
\* document) and a body that is not JSON all return None.
C5_AlbumForIdReturnsNoneOnFailure ==
    (call = "album_for_id" /\ pc = "done"
         /\ (responses[1].kind \in {"error", "notjson"}
                \/ responses[1] = [kind |-> "json", doc |-> ErrorDocument]))
        => ret.kind = "none"

----------------------------------------------------------------------------
(* Properties of the record normaliser (SpecNormalize) *)

NormalizedAlbum == pc = "done" /\ call = "get_album_info" /\ ret.kind = "album"

\* number of tracks on the discs before disc d
RECURSIVE TracksBefore(_, _)
TracksBefore(discs, d) ==
    IF d <= 1 THEN 0
    ELSE TracksBefore(discs, d - 1) + Len(discs[d - 1].tracks)

\* C6: a record with discs of c1..cN tracks gives exactly sum(ci) tracks,
\* numbered 1..sum(ci) in disc-major, track-minor order, each with the
\* 0-based index of its disc and its 0-based position on that disc.
C6_TracksNumberedAcrossDiscs ==
    NormalizedAlbum =>
        LET discs == item.discs
        IN  /\ Len(ret.tracks) = TracksBefore(discs, Len(discs) + 1)
            /\ \A k \in 1..Len(ret.tracks) :
                   /\ ret.tracks[k].index = k
                   /\ k > 1 => ret.tracks[k].index > ret.tracks[k - 1].index
            /\ \A d \in 1..Len(discs) :
                   \A t \in 1..Len(discs[d].tracks) :
                       LET tr == ret.tracks[TracksBefore(discs, d) + t]
                       IN  /\ tr.medium = d - 1
                           /\ tr.medium_index = t - 1

C6_Witness ==
    /\ NormalizedAlbum
    /\ Len(item.discs) = 3
    /\ Len(item.discs[1].tracks) = 2
    /\ Len(item.discs[2].tracks) = 0
    /\ Len(item.discs[3].tracks) = 1
    /\ ret.tracks[3].index = 3
    /\ ret.tracks[3].medium = 2

\* text without its leading and trailing blanks
RECURSIVE StripBlanks(_)
StripBlanks(s) ==
    IF s # <<>> /\ Head(s) = " " THEN StripBlanks(Tail(s))
    ELSE IF s # <<>> /\ s[Len(s)] = " " THEN StripBlanks(SubSeq(s, 1, Len(s) - 1))
    ELSE s

\* the language tags a lang-priority setting names, in order
NamedTags(setting) ==
    LET parts == Split(setting, ",")
    IN  [i \in 1..Len(parts) |-> StripBlanks(parts[i])]

\* C7: resolution goes by the ordered language tags the lang-priority
\* setting names: the album title is the value of the first named tag that
\* is a key of the name map, and the record's plain name only when none is
\* (with the default setting, a map with "en" but no "ja" gives the "en"
\* value).
C7_TitleByFirstNamedTag ==
    NormalizedAlbum =>
        LET tags == NamedTags(config)
        IN  IF \E i \in 1..Len(tags) : HasKey(item.names, tags[i])
            THEN \E i \in 1..Len(tags) :
                     /\ HasKey(item.names, tags[i])
                     /\ \A h \in 1..(i - 1) : ~HasKey(item.names, tags[h])
                     /\ ret.album = Lookup(item.names, tags[i])
            ELSE ret.album = item.name

\* the record normalises once its release date is set aside
NormalizesWithoutDate ==
    GetAlbumInfo(WithKey(item, "release_date", None), lang).kind = "album"

\* YYYY-MM-DD
WellFormedDate(text) ==
    /\ Len(text) = 10
    /\ text[5] = "-" /\ text[8] = "-"
    /\ \A i \in {1, 2, 3, 4, 6, 7, 9, 10} : IsDigit(text[i])

\* C8: year, month and day are integers that default to 0 when the release
\* date is missing or malformed: a null or empty date gives (0, 0, 0), a
\* YYYY-MM-DD date gives its three components, and any other text also
\* gives (0, 0, 0) instead of failing the record.
C8_DateDefaultsToZero ==
    (pc = "done" /\ call = "get_album_info" /\ "release_date" \in DOMAIN item
         /\ NormalizesWithoutDate) =>
        /\ ret.kind = "album"
        /\ IF WellFormedDate(item.release_date)
           THEN /\ ret.year = NumeralVal(SubSeq(item.release_date, 1, 4), 4)
                /\ ret.month = NumeralVal(SubSeq(item.release_date, 6, 7), 2)
                /\ ret.day = NumeralVal(SubSeq(item.release_date, 9, 10), 2)
           ELSE ret.year = 0 /\ ret.month = 0 /\ ret.day = 0

\* the first credit of the list with a name in a priority language
FirstResolved(credits, priority, i) ==
    /\ i \in 1..Len(credits)
    /\ FirstLang(credits[i].names, priority) # 0
    /\ \A h \in 1..(i - 1) : FirstLang(credits[h].names, priority) = 0

\* the artist and the artist identifier of the album come from this list
ArtistFrom(credits) ==
    /\ \E i \in 1..Len(credits) :
           /\ FirstResolved(credits, lang, i)
           /\ ret.artist =
                  Lookup(credits[i].names, lang[FirstLang(credits[i].names, lang)])
    /\ ret.artist_id = IF "link" \in DOMAIN credits[1]
                       THEN SliceFrom(credits[1].link, 7)
                       ELSE <<"N", "o", "n", "e">>

HasPerformers == "performers" \in DOMAIN item /\ item.performers # <<>>

\* C10 as stated: the role is "performers" whenever that list is present
\* and non-empty, and "composers" only otherwise.
C10_PerformersPreferred ==
    NormalizedAlbum =>
        IF HasPerformers THEN ArtistFrom(item.performers)
        ELSE ArtistFrom(item.composers)

\* C10 as amended: the role is always "composers", whether or not a
\* performers list is present.
C10_ComposersAlways == NormalizedAlbum => ArtistFrom(item.composers)

C10_Witness ==
    /\ NormalizedAlbum
    /\ HasPerformers
    /\ item.performers[1] = Performer1
    /\ item.composers = <<Composer2, Composer1>>
    /\ ret.artist = "Composer2 (en)"
    /\ ret.artist_id = <<"N", "o", "n", "e">>

----------------------------------------------------------------------------
(* Properties of the query normaliser (SpecQuery) *)

\* text[i..] begins with a disc marker: (CD|disc|disk), blanks, a digit
MarkerAt(text, i) ==
    \E kw \in {<<"c", "d">>, <<"d", "i", "s", "c">>, <<"d", "i", "s", "k">>} :
        /\ i + Len(kw) <= Len(text)
        /\ \A k \in 1..Len(kw) : Lower(text[i + k - 1]) = kw[k]
        /\ \E j \in (i + Len(kw))..Len(text) :
               /\ IsDigit(text[j])
               /\ \A h \in (i + Len(kw))..(j - 1) : IsSpace(text[h])

\* C9: the text sent to the search endpoint contains no disc marker
\* (CD|disc|disk)\s*\d+, case-insensitively, wherever it stands.
C9_NoDiscMarkerSent ==
    (pc = "search" /\ call = "get_albums") =>
        \A i \in 1..Len(sent) : ~MarkerAt(sent, i)

====
